---- MODULE Spec2Model ----
(***************************************************************************)
(* Model of mikrotik-addresslist: the RouterOS address-list script         *)
(* generator in its two revisions                                          *)
(*   rev = "cli"  : generate_script.py driven by cli.py                    *)
(*   rev = "main" : __main__.py (generator, CLI command, HTTP endpoints)   *)
(* An input line is a sequence of lexical tokens; a path is a sequence of  *)
(* components; a script body is a sequence of statement lines, each a      *)
(* sequence of the parts the code appends to script_body.                  *)
(***************************************************************************)
EXTENDS Integers, Sequences, FiniteSets, TLC

VARIABLES
    rev,                \* which revision runs: "cli" or "main"
    mode,               \* "cmd" (generate-script command) or an HTTP endpoint
    args,               \* the command's options / the request's script_name
    cwd,                \* current working directory of the process
    fs,                 \* absolute path -> [kind, lines] of the file there
    remote,             \* what a download of the URL yields
    out_file,           \* the file at the --output-file path
    pc,                 \* position in the handler
    script,             \* the Settings.Script in use (options of generate_script)
    source,             \* path generate_script reads
    line_count,         \* total lines, first pass
    no,                 \* 1-based number of the last line read, second pass
    script_body,        \* statement lines emitted so far
    script_entry_count, \* accepted-entry counter
    script_header,      \* content lines of the header block
    output,             \* script returned by generate_script
    log,                \* records written to the Python logger
    console,            \* messages printed by the command
    error,              \* exception raised by generate_script / get_script
    exit_code,          \* process exit code, None while running
    http_status,        \* HTTP status of the response, None if none
    response            \* body of the HTTP response

vars == <<rev, mode, args, cwd, fs, remote, out_file, pc, script, source,
          line_count, no, script_body, script_entry_count, script_header,
          output, log, console, error, exit_code, http_status, response>>

\* Python's None and a present value, for optional fields
None == <<>>
Some(v) == <<v>>

----------------------------------------------------------------------------
\* Bounds of the model

\* longest input file, in lines
MaxLines == 3

----------------------------------------------------------------------------
\* Lexical tokens of an input line

WS == [t |-> "ws"]
HASH == [t |-> "hash"]
SLASH == [t |-> "slash"]
Word(s) == [t |-> "word", s |-> s]
Num(n) == [t |-> "num", n |-> n]
IP4(a, b, c, d) == [t |-> "ip", ver |-> 4, groups |-> <<a, b, c, d>>]
IP6(g) == [t |-> "ip", ver |-> 6, groups |-> g]

\* str.strip(): leading and trailing whitespace removed
RECURSIVE lstrip(_)
lstrip(l) ==
    IF l # <<>> /\ Head(l).t = "ws" THEN lstrip(Tail(l)) ELSE l

RECURSIVE rstrip(_)
rstrip(l) ==
    IF l # <<>> /\ l[Len(l)].t = "ws" THEN rstrip(SubSeq(l, 1, Len(l) - 1)) ELSE l

strip(l) == rstrip(lstrip(l))

----------------------------------------------------------------------------
\* ipaddress.ip_network and str(network)

GroupBits(ver) == IF ver = 4 THEN 8 ELSE 16
GroupCount(ver) == IF ver = 4 THEN 4 ELSE 8
MaxPrefix(ver) == GroupBits(ver) * GroupCount(ver)

RECURSIVE Pow2(_)
Pow2(n) == IF n = 0 THEN 1 ELSE 2 * Pow2(n - 1)

\* bits of group i (1-based) that belong to the host part under prefix plen
HostBitsOf(ver, i, plen) ==
    LET w == GroupBits(ver)
        covered == plen - (i - 1) * w    \* prefix bits falling into group i
    IN  IF covered >= w THEN 0 ELSE IF covered <= 0 THEN w ELSE w - covered

\* network address: host bits of every group cleared
MaskGroups(ver, groups, plen) ==
    [i \in 1..Len(groups) |->
        groups[i] - (groups[i] % Pow2(HostBitsOf(ver, i, plen)))]

HasHostBits(ver, groups, plen) == MaskGroups(ver, groups, plen) # groups

ParseFail(err) == [ok |-> FALSE, err |-> err]
ParseOk(ver, groups, plen) ==
    [ok |-> TRUE, net |-> [ver |-> ver, groups |-> groups, plen |-> plen]]

\* address with an explicit prefix length
NetworkOf(ip, plen, strict) ==
    IF plen < 0 \/ plen > MaxPrefix(ip.ver) THEN ParseFail("not_a_network")
    ELSE IF HasHostBits(ip.ver, ip.groups, plen)
         THEN IF strict THEN ParseFail("host_bits")
              ELSE ParseOk(ip.ver, MaskGroups(ip.ver, ip.groups, plen), plen)
         ELSE ParseOk(ip.ver, ip.groups, plen)

\* IPv4 only: the prefix written as a netmask (255.255.255.0) or, failing
\* that, as a hostmask (0.0.0.255); -1 when it is neither
NetmaskOf(plen) == [i \in 1..4 |-> 256 - Pow2(HostBitsOf(4, i, plen))]
HostmaskOf(plen) == [i \in 1..4 |-> Pow2(HostBitsOf(4, i, plen)) - 1]
PrefixFromMask(groups) ==
    IF \E q \in 0..32 : NetmaskOf(q) = groups
    THEN CHOOSE q \in 0..32 : NetmaskOf(q) = groups
    ELSE IF \E q \in 0..32 : HostmaskOf(q) = groups
         THEN CHOOSE q \in 0..32 : HostmaskOf(q) = groups
         ELSE -1

\* ip_network(line, strict): a bare address is a host route, "addr/len" a
\* network; anything else raises ValueError
ip_network(l, strict) ==
    IF Len(l) = 1 /\ l[1].t = "ip"
    THEN ParseOk(l[1].ver, l[1].groups, MaxPrefix(l[1].ver))
    ELSE IF Len(l) = 3 /\ l[1].t = "ip" /\ l[2].t = "slash" /\ l[3].t = "num"
         THEN NetworkOf(l[1], l[3].n, strict)
         ELSE IF /\ Len(l) = 3 /\ l[1].t = "ip" /\ l[2].t = "slash"
                 /\ l[3].t = "ip" /\ l[1].ver = 4 /\ l[3].ver = 4
              THEN NetworkOf(l[1], PrefixFromMask(l[3].groups), strict)
              ELSE ParseFail("not_a_network")

IsIPv4Network(net) == net.ver = 4
IsIPv6Network(net) == net.ver = 6

HexDigits == <<"0", "1", "2", "3", "4", "5", "6", "7",
               "8", "9", "a", "b", "c", "d", "e", "f">>

RECURSIVE Hex(_)
Hex(n) == IF n < 16 THEN HexDigits[n + 1]
          ELSE Hex(n \div 16) \o HexDigits[(n % 16) + 1]

RECURSIVE Join(_, _, _)
Join(strs, sep, i) ==
    IF i > Len(strs) THEN ""
    ELSE IF i = Len(strs) THEN strs[i]
         ELSE strs[i] \o sep \o Join(strs, sep, i + 1)

\* length of the run of zero groups starting at i
RECURSIVE ZeroRun(_, _)
ZeroRun(g, i) ==
    IF i > Len(g) \/ g[i] # 0 THEN 0 ELSE 1 + ZeroRun(g, i + 1)

\* IPv6 text form: the leftmost longest run of two or more zero groups
\* is written "::"
CompressedV6(g) ==
    LET best == CHOOSE i \in 1..Len(g) :
                    \A j \in 1..Len(g) :
                        \/ ZeroRun(g, j) < ZeroRun(g, i)
                        \/ (ZeroRun(g, j) = ZeroRun(g, i) /\ i <= j)
        len == ZeroRun(g, best)
        hex == [i \in 1..Len(g) |-> Hex(g[i])]
    IN  IF len > 1
        THEN Join(SubSeq(hex, 1, best - 1), ":", 1) \o "::"
             \o Join(SubSeq(hex, best + len, Len(g)), ":", 1)
        ELSE Join(hex, ":", 1)

AddrStr(ver, groups) ==
    IF ver = 4
    THEN Join([i \in 1..Len(groups) |-> ToString(groups[i])], ".", 1)
    ELSE CompressedV6(groups)

\* str(network): "address/prefixlen"
NetStr(net) == AddrStr(net.ver, net.groups) \o "/" \o ToString(net.plen)

----------------------------------------------------------------------------
\* Statement lines of the script body: what the code appends to script_body

\* Python truthiness of an optional str / int option ("if comment:")
TruthyStr(opt) == opt # None /\ opt[1] # ""
TruthyInt(opt) == opt # None /\ opt[1] # 0

Attr(k, v) == [p |-> "attr", k |-> k, v |-> v]
\* mutant: the flag is written inverted
YesNoSwapped(b) == IF b THEN "no" ELSE "yes"

YesNo(b) == IF b THEN "yes" ELSE "no"

StartLog(s) ==
    <<[p |-> "log", level |-> s.log_level, msg |-> "updating", list |-> s.name]>>

ContextSwitch == <<[p |-> "path", path |-> "/ip/firewall/address-list"]>>

\* mutant: entries are numbered by their rank among the accepted lines
EntryLogByRank(s, msg, n, total, network) ==
    [p |-> "log", level |-> s.log_level, msg |-> msg,
     no |-> script_entry_count + 1, total |-> total,
     address |-> NetStr(network), list |-> s.name]

EntryLog(s, msg, n, total, network) ==
    [p |-> "log", level |-> s.log_level, msg |-> msg, no |-> n,
     total |-> total, address |-> NetStr(network), list |-> s.name]

\* mutant: the address is written without its prefix length
AddCommandHostAddress(s, network) ==
    <<[p |-> "add"], Attr("address", AddrStr(network.ver, network.groups)),
      Attr("list", s.name)>>
    \o (IF TruthyStr(s.comment) THEN <<Attr("comment", s.comment[1])>> ELSE <<>>)
    \o (IF TruthyInt(s.timeout)
        THEN <<Attr("timeout", ToString(s.timeout[1]) \o "s")>> ELSE <<>>)
    \o <<Attr("dynamic", YesNo(s.dynamic))>>
    \o <<Attr("disabled", YesNo(s.disabled))>>

\* the "add ..." command with its attributes
AddCommand(s, network) ==
    <<[p |-> "add"], Attr("address", NetStr(network)), Attr("list", s.name)>>
    \o (IF TruthyStr(s.comment) THEN <<Attr("comment", s.comment[1])>> ELSE <<>>)
    \o (IF TruthyInt(s.timeout)
        THEN <<Attr("timeout", ToString(s.timeout[1]) \o "s")>> ELSE <<>>)
    \o <<Attr("dynamic", YesNo(s.dynamic))>>
    \o <<Attr("disabled", YesNo(s.disabled))>>

\* the "; :log ..." appended after the add command
AddedLog(s, n, total, network) == <<EntryLog(s, "added", n, total, network)>>

\* opening and closing of the ":onerror in={ ... } do={ ... }" construct
OnErrorOpen(s) == IF ~s.no_catch_errors THEN <<[p |-> "onerror_in"]>> ELSE <<>>
\* mutant: the construct is closed whatever the flag says
OnErrorCloseAlways(s, n, total, network) ==
    <<[p |-> "onerror_do"], EntryLog(s, "skipped", n, total, network),
      [p |-> "onerror_end"]>>

OnErrorClose(s, n, total, network) ==
    IF ~s.no_catch_errors
    THEN <<[p |-> "onerror_do"], EntryLog(s, "skipped", n, total, network),
           [p |-> "onerror_end"]>>
    ELSE <<>>

\* one statement line for an accepted network
EntryStatement(s, n, total, network) ==
    OnErrorOpen(s) \o AddCommand(s, network) \o AddedLog(s, n, total, network)
    \o OnErrorClose(s, n, total, network)

\* mutant: the footer reports the lines read instead of the entries
FooterLogLineCount(s, count) ==
    <<[p |-> "log", level |-> s.log_level, msg |-> "finished", list |-> s.name,
       n |-> line_count]>>

FooterLog(s, count) ==
    <<[p |-> "log", level |-> s.log_level, msg |-> "finished", list |-> s.name,
       n |-> count]>>

\* records written to the Python logger while reading
LogRecord(level, what, n, total) ==
    [level |-> level, what |-> what, no |-> n, total |-> total]

----------------------------------------------------------------------------
\* Header block.  A header line of the caller is a record [text, lead, trail]:
\* text without outer whitespace, plus the number of blanks around it.
\* The box-drawing characters are written with ASCII characters of the same
\* length ("+" corners and joints, "=" horizontal, "|" vertical).

RECURSIVE Rep(_, _)
Rep(ch, n) == IF n <= 0 THEN "" ELSE ch \o Rep(ch, n - 1)

\* str.ljust(width, fill) and format(s, "<width")
ljust(str, width, fill) == str \o Rep(fill, width - Len(str))

Max(a, b) == IF a >= b THEN a ELSE b

RECURSIVE MaxLen(_, _)
MaxLen(strs, i) ==
    IF i > Len(strs) THEN 0 ELSE Max(Len(strs[i]), MaxLen(strs, i + 1))

\* branding of the package (mikrotik_addresslist/__init__.py) and the clock
BrandingTitle == "mikrotik-addresslist"
BrandingVersion == "0.1.0"
Now == "30.10.2026 - 13:25:00"

TitleLine ==
    "Generated script for Mikrotik RouterOS by " \o BrandingTitle
    \o " v" \o BrandingVersion

PathStr(parts) == "/" \o Join(parts, "/", 1)

\* str(script.source): the URL text
SourceStr(src) ==
    IF src.kind = "http" THEN src.url ELSE "file://" \o PathStr(src.path)

HeaderExtras(s) ==
    IF s.header # None /\ s.header[1] # <<>>
    THEN [i \in 1..Len(s.header[1]) |-> s.header[1][i].text]
    ELSE <<>>

\* "\n".join(...).splitlines(): a final empty line is not a line
splitlines(strs) ==
    IF strs # <<>> /\ strs[Len(strs)] = ""
    THEN SubSeq(strs, 1, Len(strs) - 1) ELSE strs

\* the unformatted header: one string per line
RawHeader(r, s, count) ==
    splitlines(
        <<TitleLine, Now, s.name>>
        \o (IF r = "main" THEN <<SourceStr(s.source)>> ELSE <<>>)
        \o <<ToString(count)>>
        \o HeaderExtras(s))

HeaderLine(field, value, text) ==
    [field |-> field, value |-> value, text |-> text]

\* label, "." fill up to the longest raw line, blank, value
Labelled(field, label, H, i) ==
    HeaderLine(field, H[i],
               ljust(label, MaxLen(H, 1) - Len(H[i]) - 1, ".") \o " " \o H[i])

Unlabelled(H, from) ==
    [i \in 1..(Len(H) - from + 1) |->
        HeaderLine("raw", H[from + i - 1], H[from + i - 1])]

\* "format the script header"
FormatHeader(r, H) ==
    IF r = "main"
    THEN <<HeaderLine("title", H[1], H[1]),
           Labelled("date", "Date: ", H, 2),
           Labelled("list", "Address: List ", H, 3),
           Labelled("source", "Source: ", H, 4),
           Labelled("entries", "Entries: ", H, 5)>>
         \o Unlabelled(H, 5)
    ELSE <<HeaderLine("title", H[1], H[1]),
           Labelled("date", "Date: ", H, 2),
           Labelled("list", "Address: List ", H, 3),
           Labelled("entries", "Entries: ", H, 4)>>
         \o Unlabelled(H, 5)

\* number of labelled summary lines framed between the two middle dividers
SummaryEnd(r) == IF r = "main" THEN 5 ELSE 4

BoxRow(row, line, text) ==
    [row |-> row, field |-> line.field, value |-> line.value, text |-> text]

\* mutant: the divider rows are one character short
DividerShort(row, left, right, width) ==
    [row |-> row, field |-> "", value |-> "",
     text |-> "# " \o left \o Rep("=", width + 1) \o right]

Divider(row, left, right, width) ==
    [row |-> row, field |-> "", value |-> "",
     text |-> "# " \o left \o Rep("=", width + 2) \o right]

\* the formatted lines as the box step sees them: the header was joined to
\* one text again and splitlines() drops a final empty line once more
FormattedLines(G) ==
    IF G # <<>> /\ G[Len(G)].text = "" THEN SubSeq(G, 1, Len(G) - 1) ELSE G

\* "pad the header with dashes": every content row padded to the longest
\* formatted line and framed
BoxHeader(r, G) ==
    LET F == FormattedLines(G)
        width == MaxLen([i \in 1..Len(F) |-> F[i].text], 1)
        content(row, i) ==
            BoxRow(row, F[i], "# | " \o ljust(F[i].text, width, " ") \o " |")
        last == SummaryEnd(r)
    IN  <<Divider("top", "+", "+", width), content("title", 1),
          Divider("middle", "+", "+", width)>>
        \o [i \in 1..(last - 1) |-> content("summary", i + 1)]
        \o <<Divider("middle", "+", "+", width)>>
        \o [i \in 1..(Len(F) - last) |-> content("extra", last + i)]
        \o <<Divider("bottom", "+", "+", width)>>

\* mutant: a script without entries gets no header block
ScriptHeaderOnlyWithEntries(r, s, count) ==
    IF count = 0 THEN <<>> ELSE BoxHeader(r, FormatHeader(r, RawHeader(r, s, count)))

\* header block of the generated script
ScriptHeader(r, s, count) == BoxHeader(r, FormatHeader(r, RawHeader(r, s, count)))

----------------------------------------------------------------------------
\* Inputs

Revs == {"cli", "main"}
\* what a path can hold: nothing, a regular file, a directory, an empty
\* device (/dev/null), a device whose bytes are no text (/dev/urandom), a
\* FIFO that no process writes to
Kinds == {"missing", "file", "dir", "null", "random", "fifo"}

\* input lines the files are made of
BlankLine == <<WS>>
CommentLine == <<WS, HASH, WS, Word("comment")>>
MalformedLine == <<Word("not-an-ip")>>
HostV4Line == <<IP4(192, 168, 1, 1), WS>>
NetV4Line == <<IP4(10, 0, 0, 0), SLASH, Num(24)>>
HostBitsV4Line == <<IP4(10, 0, 0, 1), SLASH, Num(24)>>
HostV6Line == <<IP6(<<8193, 3512, 0, 0, 0, 0, 0, 1>>)>>
HostBitsV6Line == <<WS, IP6(<<8193, 3512, 0, 0, 0, 0, 0, 1>>), SLASH, Num(32)>>

LineSet == {BlankLine, CommentLine, MalformedLine, HostV4Line, NetV4Line,
            HostBitsV4Line, HostV6Line, HostBitsV6Line}

\* files of at most MaxLines lines
Files == UNION {[1..n -> LineSet] : n \in 0..MaxLines}

\* the scenario of the specification: two valid IPv4 lines, a comment, a
\* blank line and a malformed line
ScenarioFile == <<NetV4Line, <<HASH, WS, Word("comment")>>, <<>>,
                  <<IP4(192, 168, 1, 1)>>, MalformedLine>>

\* files used where the options or the environment vary
MixedFile == <<NetV4Line, HostV6Line>>

\* paths, as sequences of components below the root
ListPath == <<"list.txt">>
WorkListPath == <<"work", "list.txt">>
ExamplePath == <<"example_blocklist.txt">>
\* tempfile.TemporaryFile().name: on POSIX the temporary file has no name,
\* the value is its file descriptor, an int; the descriptor is closed as
\* soon as the file object is dropped
TmpName == [fd |-> 3]
\* the file tempfile.NamedTemporaryFile(delete=False) creates for a response
ResponsePath == <<"tmp", "tmpresponse">>
RootDir == <<>>
WorkDir == <<"work">>
FsPaths == {ListPath, WorkListPath, <<"work", "work", "list.txt">>,
            ExamplePath, <<"work", "example_blocklist.txt">>, ResponsePath}

RelPath(parts) == [abs |-> FALSE, parts |-> parts]
AbsPath(parts) == [abs |-> TRUE, parts |-> parts]

Missing == [kind |-> "missing", lines |-> <<>>]
Regular(lines) == [kind |-> "file", lines |-> lines]
EmptyFs == [q \in FsPaths |-> Missing]
FsWith(path, entry) == [EmptyFs EXCEPT ![path] = entry]

ListUrl == "https://example.org/list.txt"
\* a list name longer than the title line leaves room for
LongName == "blocklist-of-known-malicious-hosts-and-networks-updated-daily"

DefaultArgs ==
    [script_name |-> None, src_file |-> None, src_url |-> None,
     name |-> None, output_file |-> FALSE, force |-> FALSE,
     header |-> None, comment |-> None, timeout |-> None,
     log_level |-> "debug", no_catch_errors |-> FALSE, no_ipv4 |-> FALSE,
     no_ipv6 |-> FALSE, dynamic |-> FALSE, disabled |-> FALSE]

\* content of an output file that exists before the command runs
OldContent == [header |-> <<>>, body |-> <<>>]
NoOutFile == [kind |-> "missing", content |-> None]

\* what simple_download_file does: returns True, returns False, raises
DefaultRemote == [result |-> "ok"]

\* Settings.scripts: SCRIPTS is set in the environment by the module itself
Scripts ==
    [n \in {"test"} |->
        [file |-> None, url |-> None,
         source |-> [kind |-> "file", path |-> ExamplePath, url |-> ""],
         name |-> "hg_test", header |-> None, comment |-> None,
         timeout |-> None, log_level |-> "debug", no_catch_errors |-> FALSE,
         no_ipv4 |-> FALSE, no_ipv6 |-> FALSE, dynamic |-> FALSE,
         disabled |-> FALSE]]

NoSource == [kind |-> "none", path |-> <<>>, url |-> ""]
NoScript == [Scripts["test"] EXCEPT !.source = NoSource, !.name = ""]

----------------------------------------------------------------------------
\* Initial states.  The inputs vary along three axes, each with the other two
\* at their defaults: the file with the filter flags, the entry options, and
\* the environment with the command line.

Fresh ==
    /\ pc = "start"
    /\ script = NoScript
    /\ source = None
    /\ line_count = 0
    /\ no = 0
    /\ script_body = <<>>
    /\ script_entry_count = 0
    /\ script_header = <<>>
    /\ output = None
    /\ log = <<>>
    /\ console = <<>>
    /\ error = None
    /\ exit_code = None
    /\ http_status = None
    /\ response = None

\* every file, every combination of the flags that select lines
InitLines ==
    /\ rev \in Revs
    /\ mode = "cmd"
    /\ cwd = RootDir
    /\ remote = DefaultRemote
    /\ out_file = NoOutFile
    /\ \E f \in Files \cup {ScenarioFile} : fs = FsWith(ListPath, Regular(f))
    /\ \E n4, n6 \in BOOLEAN :
          args = [DefaultArgs EXCEPT !.src_file = Some(AbsPath(ListPath)),
                                     !.name = Some("block"),
                                     !.no_ipv4 = n4, !.no_ipv6 = n6]

Comments == {None, Some(""), Some("blocked")}
Timeouts == {None, Some(0), Some(300)}
LogLevels == {"debug", "info", "warning", "error"}
ListNames == {"block", LongName}
Headers == {None, Some(<<>>),
            Some(<<[text |-> "Blocklist", lead |-> 1, trail |-> 0],
                   [text |-> "", lead |-> 0, trail |-> 0]>>),
            Some(<<[text |-> "", lead |-> 2, trail |-> 0],
                   [text |-> "Updated daily", lead |-> 0, trail |-> 1]>>),
            Some(<<[text |-> "x", lead |-> 0, trail |-> 0],
                   [text |-> "", lead |-> 1, trail |-> 0],
                   [text |-> "", lead |-> 0, trail |-> 0]>>)}

\* every combination of the options that shape an entry
InitOptions ==
    /\ rev \in Revs
    /\ mode = "cmd"
    /\ cwd = RootDir
    /\ remote = DefaultRemote
    /\ out_file = NoOutFile
    /\ fs = FsWith(ListPath, Regular(MixedFile))
    /\ \E c \in Comments, t \in Timeouts, l \in LogLevels, h \in Headers,
          nm \in ListNames, nce, dyn, dis \in BOOLEAN :
          args = [DefaultArgs EXCEPT !.src_file = Some(AbsPath(ListPath)),
                                     !.name = Some(nm),
                                     !.comment = c, !.timeout = t,
                                     !.log_level = l, !.header = h,
                                     !.no_catch_errors = nce,
                                     !.dynamic = dyn, !.disabled = dis]

ScriptNames == {None, Some("test"), Some("nope")}
SrcFiles == {None, Some(RelPath(ListPath)), Some(AbsPath(WorkListPath))}
SrcUrls == {None, Some(ListUrl)}
Remotes == {[result |-> "ok"], [result |-> "failed"], [result |-> "raises"]}
OutFiles == {NoOutFile, [kind |-> "file", content |-> Some(OldContent)],
             [kind |-> "dir", content |-> None]}

\* at most one path holds something: a regular file, a directory or a
\* special file
FsChoices ==
    {EmptyFs} \cup
    {FsWith(q, e) : q \in FsPaths \ {ResponsePath},
                    e \in {Regular(MixedFile)} \cup
                          {[kind |-> k, lines |-> <<>>] :
                              k \in Kinds \ {"missing", "file"}}}

\* every environment and command line
InitEnvironment ==
    /\ rev \in Revs
    /\ mode \in IF rev = "main"
                THEN {"cmd", "http_content", "http_settings", "http_setup"}
                ELSE {"cmd"}
    /\ cwd \in {RootDir, WorkDir}
    /\ fs \in FsChoices
    /\ \E sn \in ScriptNames, f \in SrcFiles, u \in SrcUrls,
          nm \in {None, Some("block")}, o, force \in BOOLEAN :
          \* the endpoints take a script name only; --source of __main__.py
          \* is one string, a path or a URL
          /\ mode # "cmd" =>
                sn # None /\ f = None /\ u = None /\ nm = None /\ ~o /\ ~force
          /\ rev = "main" => f = None \/ u = None
          /\ rev = "cli" => sn = None /\ nm # None
          /\ force => o
          /\ args = [DefaultArgs EXCEPT !.script_name = sn, !.src_file = f,
                                        !.src_url = u, !.name = nm,
                                        !.output_file = o, !.force = force]
          /\ remote \in IF u # None THEN Remotes ELSE {DefaultRemote}
          /\ out_file \in IF o THEN OutFiles ELSE {NoOutFile}

Init == Fresh /\ (InitLines \/ InitOptions \/ InitEnvironment)

----------------------------------------------------------------------------
\* Paths and files

\* the absolute path a path denotes for a process in directory dir
Resolve(path, dir) == IF path.abs THEN path.parts ELSE dir \o path.parts

\* what the file system holds at an absolute path
Lookup(files, parts) == IF parts \in DOMAIN files THEN files[parts] ELSE Missing

\* Path.is_file()
is_file(path) == Lookup(fs, Resolve(path, cwd)).kind = "file"

\* a source that is a path, not the descriptor of the temporary file
IsPath(src) == "parts" \in DOMAIN src

\* what lies at a source that is a path
KindAt(src) == Lookup(fs, Resolve(src, cwd)).kind

\* open(path, "r") returns for a regular file and for a device
CanOpen(src) ==
    IF IsPath(src) THEN KindAt(src) \in {"file", "null", "random"} ELSE FALSE

\* open(path, "r") of a FIFO without a writer does not return
OpenBlocks(src) == IF IsPath(src) THEN KindAt(src) = "fifo" ELSE FALSE

\* the exception open(..., "r") raises; the descriptor of the temporary
\* file is closed by then
OpenError(src) ==
    IF ~IsPath(src) THEN "OSError"
    ELSE IF KindAt(src) = "dir" THEN "IsADirectoryError"
         ELSE "FileNotFoundError"

\* "sum(1 for _ in f)" decodes the file: bytes that are no text raise
CanDecode(src) == KindAt(src) # "random"

\* lines of the file generate_script reads
SourceLines == Lookup(fs, Resolve(source[1], cwd)).lines

inputs == <<rev, mode, args, cwd, remote>>
gen_state == <<script, source, line_count, no, script_body, script_entry_count,
               script_header, output, log>>
outcome == <<console, error, exit_code, http_status, response>>

Say(stream, msg) == Append(console, [stream |-> stream, msg |-> msg])

\* sys.exit(code) after printing
Exit(code, stream, msg) ==
    /\ console' = Say(stream, msg)
    /\ exit_code' = Some(code)
    /\ pc' = "done"

----------------------------------------------------------------------------
\* get_script and the entry of the command and of the endpoints

\* mutant: a name that is not configured falls back to the "test" script
get_script_fallback(script_name, server) ==
    [raised |-> None, status |-> 0,
     script |-> IF script_name \in DOMAIN Scripts THEN Scripts[script_name]
                ELSE Scripts["test"]]

\* get_script(script_name, server): the configured definition, or the
\* exception raised for a name that is not configured
get_script(script_name, server) ==
    IF script_name \notin DOMAIN Scripts
    THEN [raised |-> Some(IF server THEN "HTTPException" ELSE "FileNotFoundError"),
          status |-> IF server THEN 404 ELSE 0,
          script |-> NoScript]
    ELSE [raised |-> None, status |-> 0, script |-> Scripts[script_name]]

\* "if script_name:" of the command
HasScriptName == TruthyStr(args.script_name)

\* the Settings.Script the command builds from its options
ScriptFromArgs(src) ==
    [file |-> None, url |-> None, source |-> src, name |-> args.name[1],
     header |-> args.header, comment |-> args.comment,
     timeout |-> args.timeout, log_level |-> args.log_level,
     no_catch_errors |-> args.no_catch_errors, no_ipv4 |-> args.no_ipv4,
     no_ipv6 |-> args.no_ipv6, dynamic |-> args.dynamic,
     disabled |-> args.disabled]

\* HttpUrl(source) or FileUrl(Path(source).absolute().as_uri())
SourceFromArgs ==
    IF args.src_url # None
    THEN [kind |-> "http", path |-> <<>>, url |-> args.src_url[1]]
    ELSE [kind |-> "file", path |-> Resolve(args.src_file[1], cwd), url |-> ""]

\* __main__.py: script_name given but not configured
CmdScriptNotFound ==
    /\ pc = "start" /\ rev = "main" /\ mode = "cmd"
    /\ HasScriptName
    /\ get_script(args.script_name[1], FALSE).raised # None
    /\ error' = get_script(args.script_name[1], FALSE).raised
    /\ Exit(1, "stderr", "script_not_found")
    /\ UNCHANGED <<inputs, fs, out_file, gen_state, http_status, response>>

\* __main__.py: script_name given and configured
CmdScriptByName ==
    /\ pc = "start" /\ rev = "main" /\ mode = "cmd"
    /\ HasScriptName
    /\ get_script(args.script_name[1], FALSE).raised = None
    /\ script' = get_script(args.script_name[1], FALSE).script
    /\ pc' = "generate"
    /\ UNCHANGED <<inputs, fs, out_file, source, line_count, no, script_body,
                   script_entry_count, script_header, output, log, outcome>>

\* __main__.py: no script_name and no --source
CmdSourceMissing ==
    /\ pc = "start" /\ rev = "main" /\ mode = "cmd"
    /\ ~HasScriptName
    /\ args.src_file = None /\ args.src_url = None
    /\ Exit(1, "stderr", "source_required")
    /\ UNCHANGED <<inputs, fs, out_file, gen_state, error, http_status, response>>

\* __main__.py: no script_name, a --source, no --name
CmdNameMissing ==
    /\ pc = "start" /\ rev = "main" /\ mode = "cmd"
    /\ ~HasScriptName
    /\ args.src_file # None \/ args.src_url # None
    /\ args.name = None
    /\ Exit(1, "stderr", "name_required")
    /\ UNCHANGED <<inputs, fs, out_file, gen_state, error, http_status, response>>

\* __main__.py: the script is built from the options
CmdAdHocScript ==
    /\ pc = "start" /\ rev = "main" /\ mode = "cmd"
    /\ ~HasScriptName
    /\ args.src_file # None \/ args.src_url # None
    /\ args.name # None
    /\ script' = ScriptFromArgs(SourceFromArgs)
    /\ pc' = "generate"
    /\ UNCHANGED <<inputs, fs, out_file, source, line_count, no, script_body,
                   script_entry_count, script_header, output, log, outcome>>

\* cli.py: --local-file is declared exists=True, a missing path is a usage error
CliFileNotExists ==
    /\ pc = "start" /\ rev = "cli" /\ mode = "cmd"
    /\ args.src_file # None
    /\ Lookup(fs, Resolve(args.src_file[1], cwd)).kind = "missing"
    /\ Exit(2, "stderr", "usage_path_does_not_exist")
    /\ UNCHANGED <<inputs, fs, out_file, gen_state, error, http_status, response>>

\* cli.py: generate_script is called with the options as they are
CliStart ==
    /\ pc = "start" /\ rev = "cli" /\ mode = "cmd"
    /\ args.src_file # None =>
          Lookup(fs, Resolve(args.src_file[1], cwd)).kind # "missing"
    /\ script' = [ScriptFromArgs(NoSource) EXCEPT !.file = args.src_file,
                                                  !.url = args.src_url]
    /\ pc' = "generate"
    /\ UNCHANGED <<inputs, fs, out_file, source, line_count, no, script_body,
                   script_entry_count, script_header, output, log, outcome>>

\* an endpoint asked for a script name that is not configured
HttpNotFound ==
    /\ pc = "start" /\ mode # "cmd"
    /\ get_script(args.script_name[1], TRUE).raised # None
    /\ error' = get_script(args.script_name[1], TRUE).raised
    /\ http_status' = Some(get_script(args.script_name[1], TRUE).status)
    /\ pc' = "done"
    /\ UNCHANGED <<inputs, fs, out_file, gen_state, console, exit_code, response>>

\* /{script_name}/settings and /{script_name}/setup
HttpSettings ==
    /\ pc = "start" /\ mode \in {"http_settings", "http_setup"}
    /\ get_script(args.script_name[1], TRUE).raised = None
    /\ response' = Some(get_script(args.script_name[1], TRUE).script)
    /\ http_status' = Some(200)
    /\ pc' = "done"
    /\ UNCHANGED <<inputs, fs, out_file, gen_state, console, error, exit_code>>

\* /{script_name}: the configured script is generated
HttpContentStart ==
    /\ pc = "start" /\ mode = "http_content"
    /\ get_script(args.script_name[1], TRUE).raised = None
    /\ script' = get_script(args.script_name[1], TRUE).script
    /\ pc' = "generate"
    /\ UNCHANGED <<inputs, fs, out_file, source, line_count, no, script_body,
                   script_entry_count, script_header, output, log, outcome>>

----------------------------------------------------------------------------
\* generate_script: the source

\* the exception leaves generate_script: nothing is returned
Raise(exc) ==
    /\ error' = Some(exc)
    /\ pc' = "raised"

UsesUrl ==
    IF rev = "main" THEN script.source.kind = "http"
    ELSE script.file = None /\ script.url # None

\* generate_script.py: neither file nor url
GenNoInput ==
    /\ pc = "generate" /\ rev = "cli"
    /\ script.file = None /\ script.url = None
    /\ Raise("ValueError")
    /\ UNCHANGED <<inputs, fs, out_file, gen_state, console, exit_code,
                   http_status, response>>

\* logger.debug / logger.error outside the loop
Logged(level, what) == Append(log, LogRecord(level, what, 0, 0))

\* generate_script.py: the download reports failure
GenDownloadFailed ==
    /\ pc = "generate" /\ UsesUrl
    /\ rev = "cli"
    /\ remote.result = "failed"
    /\ log' = Logged("debug", "downloading")
    /\ Raise("FileNotFoundError")
    /\ UNCHANGED <<inputs, fs, out_file, script, source, line_count, no,
                   script_body, script_entry_count, script_header, output,
                   console, exit_code, http_status, response>>

\* __main__.py: Path(tempfile.TemporaryFile().name) raises TypeError, the
\* name being an int; generate_script.py: the download itself raises
GenDownloadRaises ==
    /\ pc = "generate" /\ UsesUrl
    /\ rev = "main" \/ remote.result = "raises"
    /\ log' = Logged("debug", "downloading")
    /\ Raise("TypeError")
    /\ UNCHANGED <<inputs, fs, out_file, script, source, line_count, no,
                   script_body, script_entry_count, script_header, output,
                   console, exit_code, http_status, response>>

\* generate_script.py: the download reports success; the file to read is
\* the descriptor that named the temporary file
GenDownloadOk ==
    /\ pc = "generate" /\ UsesUrl
    /\ rev = "cli"
    /\ remote.result = "ok"
    /\ log' = Logged("debug", "downloading")
    /\ source' = Some(TmpName)
    /\ pc' = "open"
    /\ UNCHANGED <<inputs, fs, out_file, script, line_count, no, script_body,
                   script_entry_count, script_header, output, outcome>>

\* the path generate_script reads for a local source:
\* __main__.py takes the URL's path without its first character
LocalSource ==
    IF rev = "main" THEN RelPath(script.source.path) ELSE script.file[1]

GenLocalSource ==
    /\ pc = "generate" /\ ~UsesUrl
    /\ rev = "cli" => script.file # None
    /\ source' = Some(LocalSource)
    /\ pc' = "open"
    /\ UNCHANGED <<inputs, fs, out_file, script, line_count, no, script_body,
                   script_entry_count, script_header, output, log, outcome>>

\* whether generate_script goes on to read the source:
\* __main__.py checks is_file(), generate_script.py just opens it
SourceAccepted ==
    IF rev = "main" THEN is_file(source[1]) ELSE CanOpen(source[1])

SourceError ==
    IF rev = "main" THEN "FileNotFoundError" ELSE OpenError(source[1])

\* generate_script.py: open() of a FIFO without a writer neither returns nor
\* raises, the program waits
SourceBlocks == IF rev = "main" THEN FALSE ELSE OpenBlocks(source[1])

\* the body as it is when opening or counting raises: generate_script.py
\* starts the body before it opens the file, __main__.py after is_file()
BodyAtOpen ==
    IF rev = "main" THEN script_body ELSE <<StartLog(script), ContextSwitch>>

GenSourceUnreadable ==
    /\ pc = "open"
    /\ ~SourceAccepted
    /\ ~SourceBlocks
    /\ script_body' = BodyAtOpen
    /\ Raise(SourceError)
    /\ UNCHANGED <<inputs, fs, out_file, script, source, line_count, no,
                   script_entry_count, script_header, output, log, console,
                   exit_code, http_status, response>>

\* the first pass raises UnicodeDecodeError on bytes that are no text
GenDecodeFails ==
    /\ pc = "open"
    /\ SourceAccepted
    /\ ~CanDecode(source[1])
    /\ script_body' = <<StartLog(script), ContextSwitch>>
    /\ Raise("UnicodeDecodeError")
    /\ UNCHANGED <<inputs, fs, out_file, script, source, line_count, no,
                   script_entry_count, script_header, output, log, console,
                   exit_code, http_status, response>>

\* the start of the body and the first pass, which counts the lines
GenOpen ==
    /\ pc = "open"
    /\ SourceAccepted
    /\ CanDecode(source[1])
    /\ script_body' = <<StartLog(script), ContextSwitch>>
    /\ line_count' = Len(SourceLines)
    /\ log' = Logged("debug", "reading")
    /\ no' = 0
    /\ script_entry_count' = 0
    /\ pc' = "read"
    /\ UNCHANGED <<inputs, fs, out_file, script, source, script_header, output,
                   outcome>>

----------------------------------------------------------------------------
\* generate_script: the second pass, one step per line

\* generate_script.py parses strictly, __main__.py with strict=False
Strict == rev = "cli"

\* the line being read, stripped
NextLine == strip(SourceLines[no + 1])

\* "if not line or line.startswith('#')"
IsSkipped(l) == IF l = <<>> THEN TRUE ELSE Head(l).t = "hash"

\* mutant: only the IPv4 flag is honoured
IsFilteredIPv4Only(s, network) == IsIPv4Network(network) /\ s.no_ipv4

\* the address-family filter
IsFiltered(s, network) ==
    \/ IsIPv4Network(network) /\ s.no_ipv4
    \/ IsIPv6Network(network) /\ s.no_ipv6

Reading == pc = "read" /\ no < line_count

\* a blank line or a comment
ReadSkip ==
    /\ Reading
    /\ IsSkipped(NextLine)
    /\ no' = no + 1
    /\ UNCHANGED <<inputs, fs, out_file, pc, script, source, line_count,
                   script_body, script_entry_count, script_header, output,
                   log, outcome>>

\* ip_network raises ValueError: logged, the loop continues
ReadParseError ==
    /\ Reading
    /\ ~IsSkipped(NextLine)
    /\ ~ip_network(NextLine, Strict).ok
    /\ no' = no + 1
    /\ log' = Append(log, LogRecord("error", ip_network(NextLine, Strict).err,
                                    no + 1, line_count))
    /\ UNCHANGED <<inputs, fs, out_file, pc, script, source, line_count,
                   script_body, script_entry_count, script_header, output,
                   outcome>>

\* a network of an excluded family
ReadFiltered ==
    /\ Reading
    /\ ~IsSkipped(NextLine)
    /\ ip_network(NextLine, Strict).ok
    /\ IsFiltered(script, ip_network(NextLine, Strict).net)
    /\ no' = no + 1
    /\ log' = Append(log, LogRecord("debug",
                 IF IsIPv4Network(ip_network(NextLine, Strict).net)
                 THEN "skipping_ipv4" ELSE "skipping_ipv6", no + 1, line_count))
    /\ UNCHANGED <<inputs, fs, out_file, pc, script, source, line_count,
                   script_body, script_entry_count, script_header, output,
                   outcome>>

\* the counter after an entry was emitted
CountEntry(count) == count + 1

\* an accepted network: one statement line, the counter goes up
ReadAdd ==
    /\ Reading
    /\ ~IsSkipped(NextLine)
    /\ ip_network(NextLine, Strict).ok
    /\ ~IsFiltered(script, ip_network(NextLine, Strict).net)
    /\ no' = no + 1
    /\ log' = Append(log, LogRecord("debug", "adding", no + 1, line_count))
    /\ script_body' = Append(script_body,
          EntryStatement(script, no + 1, line_count,
                         ip_network(NextLine, Strict).net))
    /\ script_entry_count' = CountEntry(script_entry_count)
    /\ UNCHANGED <<inputs, fs, out_file, pc, script, source, line_count,
                   script_header, output, outcome>>

\* mutant: header block and body are joined without the blank line
ScriptLinesNoBlank(header, body) ==
    [i \in 1..Len(header) |-> <<header[i]>>] \o body

\* f"{script_header}\n\n{script_body}": the lines of the script, each a
\* sequence of parts; the line between header block and body is empty
ScriptLines(header, body) ==
    [i \in 1..Len(header) |-> <<header[i]>>] \o <<<<>>>> \o body

\* after the loop: the footer, the header block, the script
GenFinish ==
    /\ pc = "read" /\ no = line_count
    /\ script_body' = Append(script_body, FooterLog(script, script_entry_count))
    /\ script_header' = ScriptHeader(rev, script, script_entry_count)
    /\ output' = Some([header |-> script_header', body |-> script_body',
                       lines |-> ScriptLines(script_header', script_body')])
    /\ log' = Logged("debug", "generated")
    /\ pc' = "returned"
    /\ UNCHANGED <<inputs, fs, out_file, script, source, line_count, no,
                   script_entry_count, outcome>>

----------------------------------------------------------------------------
\* The end of the command and of the /{script_name} endpoint

\* "except Exception" around generate_script
CmdGenerateFailed ==
    /\ pc = "raised" /\ mode = "cmd"
    /\ Exit(1, "stderr", "error_generating_script")
    /\ UNCHANGED <<inputs, fs, out_file, gen_state, error, http_status, response>>

\* no --output-file: the script is printed
CmdPrint ==
    /\ pc = "returned" /\ mode = "cmd"
    /\ ~args.output_file
    /\ Exit(0, "stdout", "script")
    /\ UNCHANGED <<inputs, fs, out_file, gen_state, error, http_status, response>>

\* cli.py: the --output-file branch is "...", nothing is written
CliOutputIgnored ==
    /\ pc = "returned" /\ mode = "cmd" /\ rev = "cli"
    /\ args.output_file
    /\ exit_code' = Some(0)
    /\ pc' = "done"
    /\ UNCHANGED <<inputs, fs, out_file, gen_state, console, error,
                   http_status, response>>

\* __main__.py: the output file exists and --force is not given
CmdOutputExists ==
    /\ pc = "returned" /\ mode = "cmd" /\ rev = "main"
    /\ args.output_file
    /\ out_file.kind = "file" /\ ~args.force
    /\ Exit(1, "stderr", "output_file_exists")
    /\ UNCHANGED <<inputs, fs, out_file, gen_state, error, http_status, response>>

\* __main__.py: output_file.unlink() of a path that holds no file raises
\* (FileNotFoundError, or IsADirectoryError for a directory); nothing
\* catches it and the interpreter ends with a traceback
CmdOutputUnlinkFails ==
    /\ pc = "returned" /\ mode = "cmd" /\ rev = "main"
    /\ args.output_file
    /\ out_file.kind # "file"
    /\ error' = Some(IF out_file.kind = "dir" THEN "IsADirectoryError"
                     ELSE "FileNotFoundError")
    /\ Exit(1, "stderr", "traceback")
    /\ UNCHANGED <<inputs, fs, out_file, gen_state, http_status, response>>

\* __main__.py: the existing file is removed and written anew
CmdOutputWritten ==
    /\ pc = "returned" /\ mode = "cmd" /\ rev = "main"
    /\ args.output_file
    /\ out_file.kind = "file" /\ args.force
    /\ out_file' = [kind |-> "file", content |-> output]
    /\ Exit(0, "stdout", "script_saved")
    /\ UNCHANGED <<inputs, fs, gen_state, error, http_status, response>>

\* /{script_name}: the script is written to a new temporary file, which is
\* kept, and sent as that file
HttpRespondScript ==
    /\ pc = "returned" /\ mode = "http_content"
    /\ fs' = [fs EXCEPT ![ResponsePath] = Regular(output[1].lines)]
    /\ http_status' = Some(200)
    /\ response' = output
    /\ pc' = "done"
    /\ UNCHANGED <<inputs, out_file, gen_state, console, error, exit_code>>

\* /{script_name}: generate_script raised, the framework answers 500
HttpGenerateFailed ==
    /\ pc = "raised" /\ mode = "http_content"
    /\ http_status' = Some(500)
    /\ pc' = "done"
    /\ UNCHANGED <<inputs, fs, out_file, gen_state, console, error, exit_code,
                   response>>

----------------------------------------------------------------------------

Next ==
    \/ CmdScriptNotFound
    \/ CmdScriptByName
    \/ CmdSourceMissing
    \/ CmdNameMissing
    \/ CmdAdHocScript
    \/ CliFileNotExists
    \/ CliStart
    \/ HttpNotFound
    \/ HttpSettings
    \/ HttpContentStart
    \/ GenNoInput
    \/ GenDownloadFailed
    \/ GenDownloadRaises
    \/ GenDownloadOk
    \/ GenLocalSource
    \/ GenSourceUnreadable
    \/ GenDecodeFails
    \/ GenOpen
    \/ ReadSkip
    \/ ReadParseError
    \/ ReadFiltered
    \/ ReadAdd
    \/ GenFinish
    \/ CmdGenerateFailed
    \/ CmdPrint
    \/ CliOutputIgnored
    \/ CmdOutputExists
    \/ CmdOutputUnlinkFails
    \/ CmdOutputWritten
    \/ HttpRespondScript
    \/ HttpGenerateFailed

Spec == Init /\ [][Next]_vars

----------------------------------------------------------------------------
\* Observations used by the properties

IsAddLine(stmt) == \E i \in 1..Len(stmt) : stmt[i].p = "add"
AddLines(body) == {i \in 1..Len(body) : IsAddLine(body[i])}
NumAdds(body) == Cardinality(AddLines(body))

\* positions of the parts of a statement line
AttrsOf(stmt, k) ==
    {i \in 1..Len(stmt) : IF stmt[i].p = "attr" THEN stmt[i].k = k ELSE FALSE}
LogsOf(stmt, msg) ==
    {i \in 1..Len(stmt) : IF stmt[i].p = "log" THEN stmt[i].msg = msg ELSE FALSE}
PartsOf(stmt, kind) == {i \in 1..Len(stmt) : stmt[i].p = kind}

\* value of the one attribute k of an add line
AttrValue(stmt, k) == stmt[CHOOSE i \in AttrsOf(stmt, k) : TRUE].v

\* the footer of a finished body and the "Entries" rows of a header block
Footer(body) == body[Len(body)][1]
EntriesRows(header) == {i \in 1..Len(header) : header[i].field = "entries"}

\* What the ipaddress library of Python 3.11 answers for the lines of LineSet
\* and of ScenarioFile: the text of the network, "" where the line is blank,
\* a comment or raises ValueError
LibraryText(l, strict) ==
    CASE l \in {HostV4Line, <<IP4(192, 168, 1, 1)>>} -> "192.168.1.1/32"
      [] l = NetV4Line -> "10.0.0.0/24"
      [] l = HostBitsV4Line -> IF strict THEN "" ELSE "10.0.0.0/24"
      [] l = HostV6Line -> "2001:db8::1/128"
      [] l = HostBitsV6Line -> IF strict THEN "" ELSE "2001:db8::/32"
      [] OTHER -> ""

\* address family of the lines that hold an address
LibraryFamily(l) ==
    CASE l \in {HostV4Line, <<IP4(192, 168, 1, 1)>>, NetV4Line, HostBitsV4Line} -> 4
      [] l \in {HostV6Line, HostBitsV6Line} -> 6
      [] OTHER -> 0

V4Texts == {"192.168.1.1/32", "10.0.0.0/24"}
V6Texts == {"2001:db8::1/128", "2001:db8::/32"}

\* a line that must produce an entry: the library accepts it and its family
\* is not excluded
IsEntryLine(l, strict, s) ==
    /\ LibraryText(l, strict) # ""
    /\ ~(LibraryFamily(l) = 4 /\ s.no_ipv4)
    /\ ~(LibraryFamily(l) = 6 /\ s.no_ipv6)

\* positions of the entry lines among the first n lines of the source
EntryPositions(n) ==
    {i \in 1..n : IsEntryLine(SourceLines[i], Strict, script)}

\* the script names a local source
IsLocal ==
    IF rev = "main" THEN script.source.kind = "file" ELSE script.file # None

InGenerator == pc \in {"read", "returned"} \/ (pc = "done" /\ output # None)

----------------------------------------------------------------------------
\* C1: the number N of the footer log statement and the entry count of the
\* header block both equal the number of add statements of the body, and
\* that number is the number of lines read so far that are neither blank,
\* comment, unparsable nor of an excluded family.
C1_EntryCount ==
    /\ InGenerator =>
          /\ script_entry_count = NumAdds(script_body)
          /\ NumAdds(script_body) = Cardinality(EntryPositions(no))
    /\ output # None =>
          /\ Footer(output[1].body).msg = "finished"
          /\ Footer(output[1].body).n = NumAdds(output[1].body)
          /\ EntriesRows(output[1].header) # {}
          /\ \A i \in EntriesRows(output[1].header) :
                output[1].header[i].value = ToString(NumAdds(output[1].body))

\* the scenario of the specification is generated: two entries out of five lines
C1_Witness ==
    /\ output # None
    /\ SourceLines = ScenarioFile
    /\ ~script.no_ipv4
    /\ line_count = 5
    /\ NumAdds(output[1].body) = 2
    /\ Footer(output[1].body).n = 2
    /\ Len(log) = 5 /\ log[4].level = "error" /\ log[4].no = 5

----------------------------------------------------------------------------
\* Statement lines of the generator's body in any state
EntryLines == {script_body[i] : i \in AddLines(script_body)}

\* C2 (as amended): with noCatchErrors every entry is the add command
\* followed by its "Added address" log statement and nothing else: it is not
\* wrapped in ":onerror in={ } do={ }" and has no "Skipped adding address"
\* log statement.
C2_NoCatchKeepsAddedLog ==
    script.no_catch_errors =>
        \A stmt \in EntryLines :
            /\ PartsOf(stmt, "onerror_in") = {}
            /\ PartsOf(stmt, "onerror_do") = {}
            /\ PartsOf(stmt, "onerror_end") = {}
            /\ LogsOf(stmt, "skipped") = {}
            /\ LogsOf(stmt, "added") = {Len(stmt)}
            /\ stmt[1].p = "add"
            /\ \A i \in 2..(Len(stmt) - 1) : stmt[i].p = "attr"

\* C2 as stated: with noCatchErrors an entry is the add command only, with
\* no ":onerror" construct and no per-entry log statement at all.
C2_NoCatchOnlyAdd ==
    script.no_catch_errors =>
        \A stmt \in EntryLines :
            /\ PartsOf(stmt, "onerror_in") = {}
            /\ PartsOf(stmt, "onerror_do") = {}
            /\ PartsOf(stmt, "log") = {}

\* an entry was emitted with noCatchErrors set
C2_Witness ==
    /\ script.no_catch_errors
    /\ pc = "returned"
    /\ EntryLines # {}

----------------------------------------------------------------------------
\* C3: with noIPv4 no add statement carries an IPv4 network, with noIPv6
\* none carries an IPv6 network; a line of an excluded family leaves a debug
\* record and never an error record, and with both flags set the script has
\* no add statement and reports 0 entries.
C3_FamilyFilter ==
    InGenerator =>
        /\ \A stmt \in EntryLines :
              /\ script.no_ipv4 => AttrValue(stmt, "address") \notin V4Texts
              /\ script.no_ipv6 => AttrValue(stmt, "address") \notin V6Texts
        /\ \A i \in 1..no :
              (/\ LibraryText(SourceLines[i], Strict) # ""
               /\ ~IsEntryLine(SourceLines[i], Strict, script))
              => /\ \E k \in 1..Len(log) :
                       /\ log[k].no = i
                       /\ log[k].level = "debug"
                       /\ log[k].what = IF LibraryFamily(SourceLines[i]) = 4
                                        THEN "skipping_ipv4" ELSE "skipping_ipv6"
                 /\ \A k \in 1..Len(log) :
                       log[k].no = i => log[k].level # "error"
        /\ (output # None /\ script.no_ipv4 /\ script.no_ipv6) =>
              /\ NumAdds(output[1].body) = 0
              /\ Footer(output[1].body).n = 0
              /\ \A i \in EntriesRows(output[1].header) :
                    output[1].header[i].value = "0"

\* a file with both families was generated with only IPv4 excluded
C3_Witness ==
    /\ output # None
    /\ script.no_ipv4 /\ ~script.no_ipv6
    /\ \E i, j \in 1..line_count :
          /\ LibraryFamily(SourceLines[i]) = 4
          /\ LibraryFamily(SourceLines[j]) = 6
    /\ NumAdds(output[1].body) >= 1

----------------------------------------------------------------------------
\* lines of LineSet and ScenarioFile the library rejects with ValueError
IsMalformed(l, strict) ==
    \/ l = MalformedLine
    \/ strict /\ l \in {HostBitsV4Line, HostBitsV6Line}

\* number and total in the "[n/total]" of every log statement of an entry
EntryNumbers(stmt) == {stmt[i].no : i \in PartsOf(stmt, "log")}
EntryTotals(stmt) == {stmt[i].total : i \in PartsOf(stmt, "log")}

\* C4: a line that fails to parse leaves an error record and no statement
\* and generation goes on to the last line; the n of every "[n/total]" of an
\* entry is the 1-based position of its line in the file and total is the
\* number of lines of the file.
C4_ParseFailureContinues ==
    InGenerator =>
        /\ pc \in {"read", "returned"} => error = None
        /\ line_count = Len(SourceLines)
        /\ pc # "read" => no = line_count
        /\ \A i \in 1..no :
              IsMalformed(SourceLines[i], Strict) =>
                  /\ \E k \in 1..Len(log) :
                        /\ log[k].level = "error"
                        /\ log[k].no = i
                        /\ log[k].total = Len(SourceLines)
                  /\ \A stmt \in EntryLines : i \notin EntryNumbers(stmt)
        /\ \A stmt \in EntryLines :
              /\ EntryTotals(stmt) = {Len(SourceLines)}
              /\ \E n \in EntryPositions(no) :
                    /\ EntryNumbers(stmt) = {n}
                    /\ AttrValue(stmt, "address")
                          = LibraryText(SourceLines[n], Strict)
        /\ UNION {EntryNumbers(stmt) : stmt \in EntryLines} = EntryPositions(no)

\* a blank line, a malformed line, then an entry numbered 3 of 3
C4_Witness ==
    /\ output # None
    /\ line_count = 3
    /\ SourceLines[1] = BlankLine
    /\ IsMalformed(SourceLines[2], Strict)
    /\ \E stmt \in EntryLines :
          EntryNumbers(stmt) = {3} /\ EntryTotals(stmt) = {3}
    /\ \E k \in 1..Len(log) : log[k].level = "error" /\ log[k].no = 2

----------------------------------------------------------------------------
\* C5: every line the network parser accepts and no family flag excludes has
\* an add statement whose address is the network in normalized notation: a
\* bare address with the full-length prefix (/32, /128), a CIDR entry as
\* network-address/prefix-length.
C5_NormalizedAddress ==
    InGenerator =>
        \A i \in EntryPositions(no) :
            \E stmt \in EntryLines :
                /\ EntryNumbers(stmt) = {i}
                /\ Cardinality(AttrsOf(stmt, "address")) = 1
                /\ AttrValue(stmt, "address") = LibraryText(SourceLines[i], Strict)

\* a bare IPv4 address and an IPv6 CIDR entry were both emitted
C5_Witness ==
    /\ output # None
    /\ \E stmt \in EntryLines : AttrValue(stmt, "address") = "192.168.1.1/32"
    /\ \E stmt \in EntryLines : AttrValue(stmt, "address") = "2001:db8::/32"

----------------------------------------------------------------------------
AttrKeys == {"address", "list", "comment", "timeout", "dynamic", "disabled"}

\* C6: every add statement carries exactly one address, one list (the list
\* name), one dynamic and one disabled attribute (yes iff the flag is set);
\* it carries comment iff a (non-empty) comment is set and timeout="<N>s" iff
\* timeoutSeconds is set to a (non-zero) N, and no other attribute.
C6_Attributes ==
    \A stmt \in EntryLines :
        /\ \A i \in PartsOf(stmt, "attr") : stmt[i].k \in AttrKeys
        /\ Cardinality(PartsOf(stmt, "add")) = 1
        /\ Cardinality(AttrsOf(stmt, "address")) = 1
        /\ Cardinality(AttrsOf(stmt, "list")) = 1
        /\ AttrValue(stmt, "list") = script.name
        /\ Cardinality(AttrsOf(stmt, "dynamic")) = 1
        /\ AttrValue(stmt, "dynamic") = "yes" <=> script.dynamic
        /\ AttrValue(stmt, "dynamic") = "no" <=> ~script.dynamic
        /\ Cardinality(AttrsOf(stmt, "disabled")) = 1
        /\ AttrValue(stmt, "disabled") = "yes" <=> script.disabled
        /\ AttrValue(stmt, "disabled") = "no" <=> ~script.disabled
        /\ IF script.comment \in {None, Some("")}
           THEN AttrsOf(stmt, "comment") = {}
           ELSE /\ Cardinality(AttrsOf(stmt, "comment")) = 1
                /\ AttrValue(stmt, "comment") = script.comment[1]
        /\ IF script.timeout \in {None, Some(0)}
           THEN AttrsOf(stmt, "timeout") = {}
           ELSE /\ Cardinality(AttrsOf(stmt, "timeout")) = 1
                /\ script.timeout = Some(300)
                      => AttrValue(stmt, "timeout") = "300s"

\* the scenario of the specification: timeoutSeconds=300 and dynamic
C6_Witness ==
    /\ output # None
    /\ script.timeout = Some(300) /\ script.dynamic /\ script.comment = Some("blocked")
    /\ Cardinality(EntryLines) = 2
    /\ \A stmt \in EntryLines :
          /\ AttrValue(stmt, "timeout") = "300s"
          /\ AttrValue(stmt, "dynamic") = "yes"

----------------------------------------------------------------------------
\* exceptions that report a source that cannot be read as a file
SourceNotFoundErrors == {"FileNotFoundError", "IsADirectoryError"}

\* what lies at the path generate_script resolved
SourceKind == KindAt(source[1])

\* C7: without a local file and without a URL generation fails with an input
\* error before anything is read or downloaded; when the resolved local path
\* is missing or is no regular file it fails with a source-not-found error;
\* in both cases no script is returned.
C7_SourceErrors ==
    /\ (/\ mode = "cmd" /\ pc = "done" /\ ~HasScriptName
        /\ args.src_file = None /\ args.src_url = None)
       => /\ output = None /\ script_body = <<>>
          /\ source = None
          /\ log = <<>>
          /\ exit_code = Some(1)
          /\ rev = "cli" => error = Some("ValueError")
    /\ (IsLocal /\ source # None /\ pc \notin {"generate", "open"})
       => (SourceKind # "file"
           => /\ output = None
              /\ error # None
              /\ error[1] \in SourceNotFoundErrors)

----------------------------------------------------------------------------
\* C8: with an output file path, a successful generation and either no file
\* at that path or --force, the command ends with the script as the content
\* of the output file and exit code 0.
C8_OutputWritten ==
    (/\ mode = "cmd" /\ pc = "done"
     /\ args.output_file /\ output # None
     /\ out_file.kind = "missing" \/ (out_file.kind = "file" /\ args.force))
    => /\ exit_code = Some(0)
       /\ out_file = [kind |-> "file", content |-> output]

----------------------------------------------------------------------------
\* C9: with an output file that exists and without --force the command
\* prints a message, exits non-zero and leaves the file as it was; a failed
\* generation also ends with a message and a non-zero exit code.
C9_ExistingOutputKept ==
    /\ (/\ mode = "cmd" /\ pc = "done"
        /\ args.output_file /\ output # None
        /\ out_file.kind = "file" /\ ~args.force)
       => /\ console # <<>>
          /\ exit_code \notin {None, Some(0)}
          /\ out_file.content = Some(OldContent)
    /\ (mode = "cmd" /\ pc = "done" /\ output = None)
       => /\ console # <<>>
          /\ exit_code \notin {None, Some(0)}

----------------------------------------------------------------------------
IsUnknownName ==
    /\ args.script_name \notin {None, Some("")}
    /\ args.script_name[1] \notin DOMAIN Scripts

IsConfiguredName ==
    /\ args.script_name # None
    /\ args.script_name[1] \in DOMAIN Scripts

\* C10: a script name that is not configured never leads to generation: the
\* command prints a message and exits with code 1, every endpoint answers
\* 404; a configured name yields that name's own definition.
C10_UnknownScriptName ==
    rev = "main" =>
        /\ IsUnknownName =>
              /\ pc \in {"start", "done"}
              /\ script = NoScript /\ source = None
              /\ script_body = <<>> /\ output = None /\ response = None
              /\ (pc = "done" /\ mode = "cmd") =>
                    /\ exit_code = Some(1)
                    /\ console = <<[stream |-> "stderr", msg |-> "script_not_found"]>>
              /\ (pc = "done" /\ mode # "cmd") => http_status = Some(404)
        /\ (IsConfiguredName /\ pc # "start") =>
              /\ mode \in {"cmd", "http_content"}
                    => script = Scripts[args.script_name[1]]
              /\ mode \in {"http_settings", "http_setup"}
                    => /\ http_status = Some(200)
                       /\ response = Some(Scripts[args.script_name[1]])

\* the command was given an unknown name together with a source and a list
\* name, and ended with exit code 1
C10_Witness ==
    /\ rev = "main" /\ mode = "cmd" /\ pc = "done"
    /\ args.script_name = Some("nope")
    /\ args.src_file # None /\ args.name # None
    /\ exit_code = Some(1)

----------------------------------------------------------------------------
\* rows of a header block by kind
RowsOf(header, kind) == {i \in 1..Len(header) : header[i].row = kind}

\* no line of the source is to produce an entry
NoEntryLines == EntryPositions(Len(SourceLines)) = {}

\* C11: a source without any valid entry is not an error: reading it raises
\* nothing, and the script returned is complete, with the header block, the
\* start log statement, the context switch and the footer, the entry count 0
\* in header and footer, and no add statement.
C11_ZeroEntries ==
    /\ pc = "raised" =>
          /\ NumAdds(script_body) = 0
          /\ script_body \in {<<>>, <<StartLog(script), ContextSwitch>>}
          /\ \A k \in 1..Len(log) : log[k].what = "downloading"
    /\ (InGenerator /\ NoEntryLines) =>
          /\ pc \in {"read", "returned"} => error = None
          /\ NumAdds(script_body) = 0
          /\ pc # "read" =>
                /\ output # None
                /\ Len(output[1].body) = 3
                /\ output[1].body[1][1].p = "log"
                /\ output[1].body[1][1].msg = "updating"
                /\ output[1].body[2][1].p = "path"
                /\ output[1].body[2][1].path = "/ip/firewall/address-list"
                /\ Footer(output[1].body).p = "log"
                /\ Footer(output[1].body).msg = "finished"
                /\ Footer(output[1].body).n = 0
                /\ Cardinality(RowsOf(output[1].header, "top")) = 1
                /\ Cardinality(RowsOf(output[1].header, "title")) = 1
                /\ Cardinality(RowsOf(output[1].header, "bottom")) = 1
                /\ EntriesRows(output[1].header) # {}
                /\ \A i \in EntriesRows(output[1].header) :
                      output[1].header[i].value = "0"

\* a script was returned for a file of MaxLines lines of which none is an
\* entry: one is malformed and one is an address of an excluded family
C11_Witness ==
    /\ pc = "returned" /\ output # None
    /\ line_count = MaxLines
    /\ NoEntryLines
    /\ \E i \in 1..line_count : SourceLines[i] = MalformedLine
    /\ \E i \in 1..line_count : LibraryFamily(SourceLines[i]) # 0
    /\ Footer(output[1].body).n = 0

----------------------------------------------------------------------------
\* the content rows of a header block, top to bottom, as field and value
ContentRows(header) ==
    LET rows == SelectSeq(header, LAMBDA r : r.row \in {"title", "summary", "extra"})
    IN  [i \in 1..Len(rows) |-> [field |-> rows[i].field, value |-> rows[i].value]]

\* the caller's extra header lines that are not empty, in the caller's order
NonEmptyExtras(s) ==
    IF s.header = None THEN <<>>
    ELSE LET kept == SelectSeq(s.header[1], LAMBDA h : h.text # "")
         IN  [i \in 1..Len(kept) |-> [field |-> "raw", value |-> kept[i].text]]

\* the content lines a header block is to show for script s with count entries
ExpectedContent(r, s, count) ==
    <<[field |-> "title", value |-> TitleLine],
      [field |-> "date", value |-> Now],
      [field |-> "list", value |-> s.name]>>
    \o (IF r = "main"
        THEN <<[field |-> "source", value |-> SourceStr(s.source)]>> ELSE <<>>)
    \o <<[field |-> "entries", value |-> ToString(count)]>>
    \o NonEmptyExtras(s)

\* C12: the content lines of the header block are, in this order and each
\* once: generator line, date, list name, source (where the revision has it),
\* entries, then the caller's non-empty extra lines in the caller's order;
\* nothing else is shown and no value is shown twice.
C12_HeaderContent ==
    output # None =>
        ContentRows(output[1].header)
            = ExpectedContent(rev, script, NumAdds(output[1].body))

----------------------------------------------------------------------------
\* the labels of the labelled summary lines
LabelOf(field) ==
    CASE field = "date" -> "Date: "
      [] field = "list" -> "Address: List "
      [] field = "source" -> "Source: "
      [] field = "entries" -> "Entries: "
      [] OTHER -> ""

LabelledFields == {"date", "list", "source", "entries"}

\* length of the longest line of the unformatted header block
LongestRaw(r, s, count) ==
    LET e == ExpectedContent(r, s, count)
    IN  MaxLen([i \in 1..Len(e) |-> e[i].value], 1)

\* width of the content of a header block, from its first row
BoxWidth(header) == Len(header[1].text) - 6

\* C13: every labelled summary line is its label, "." up to the column where
\* the value starts, a blank and the value, and has the length of the
\* longest line of the unformatted header block.
C13_DotFill ==
    output # None =>
        LET header == output[1].header
            longest == LongestRaw(rev, script, NumAdds(output[1].body))
        IN  \A i \in 1..Len(header) :
                header[i].field \in LabelledFields =>
                    LET label == LabelOf(header[i].field)
                        value == header[i].value
                        dots == longest - Len(label) - 1 - Len(value)
                    IN  /\ dots >= 0
                        /\ header[i].text =
                              "# | " \o label \o Rep(".", dots) \o " " \o value
                              \o Rep(" ", BoxWidth(header) - longest) \o " |"

----------------------------------------------------------------------------
\* what a content row shows between the frame characters
InnerText(row, longest) ==
    IF row.field \in LabelledFields
    THEN LabelOf(row.field)
         \o Rep(".", longest - Len(LabelOf(row.field)) - 1 - Len(row.value))
         \o " " \o row.value
    ELSE row.value

\* C14: every row of the header block starts with "#" and all rows have the
\* same length; the block has one top row, the title, a middle divider, the
\* labelled summary lines, a second middle divider, the remaining lines and
\* one bottom row.
C14_UniformBox ==
    output # None =>
        LET header == output[1].header
            width == BoxWidth(header)
            longest == LongestRaw(rev, script, NumAdds(output[1].body))
            middles == RowsOf(header, "middle")
            summary == RowsOf(header, "summary")
        IN  /\ \A i \in 1..Len(header) : Len(header[i].text) = width + 6
            /\ \A i \in 1..Len(header) :
                  IF header[i].row \in {"top", "middle", "bottom"}
                  THEN header[i].text = "# +" \o Rep("=", width + 2) \o "+"
                  ELSE LET inner == InnerText(header[i], longest)
                       IN  header[i].text =
                              "# | " \o inner \o Rep(" ", width - Len(inner)) \o " |"
            /\ RowsOf(header, "top") = {1}
            /\ RowsOf(header, "title") = {2}
            /\ RowsOf(header, "bottom") = {Len(header)}
            /\ Cardinality(middles) = 2
            /\ 3 \in middles
            /\ summary # {}
            /\ \A i \in summary : header[i].field \in LabelledFields
            /\ \A i \in 1..Len(header) :
                  header[i].field \in LabelledFields => i \in summary
            /\ \A m \in middles \ {3} :
                  /\ summary = 4..(m - 1)
                  /\ \A i \in (m + 1)..(Len(header) - 1) : header[i].row = "extra"

\* a header block whose list name is longer than the title line leaves room
\* for, with an extra header line below the second divider
C14_Witness ==
    /\ output # None
    /\ script.name = LongName
    /\ RowsOf(output[1].header, "extra") # {}
    /\ \E i \in 1..Len(output[1].header) :
          /\ output[1].header[i].field = "list"
          /\ Len(output[1].header[i].text) = BoxWidth(output[1].header) + 6
          /\ Len(InnerText(output[1].header[i], Len(TitleLine))) > Len(TitleLine)

----------------------------------------------------------------------------
\* the header rows at the start of the lines of a script
IsHeaderLine(line) ==
    IF line = <<>> THEN FALSE ELSE "row" \in DOMAIN line[1]

HeaderLines(lines) == {i \in 1..Len(lines) : IsHeaderLine(lines[i])}

\* the j-th smallest element of a set of numbers
Nth(P, j) == CHOOSE q \in P : Cardinality({x \in P : x <= q}) = j

\* C15: the script is the header block, one blank line and the body; the
\* body starts with the start log statement and the context switch, ends
\* with the footer, and has in between one statement line per accepted input
\* line, in the order of the input.
C15_Assembly ==
    output # None =>
        LET lines == output[1].lines
            nh == Cardinality(HeaderLines(lines))
            accepted == EntryPositions(line_count)
            n == Cardinality(accepted)
        IN  /\ nh >= 1
            /\ HeaderLines(lines) = 1..nh
            /\ \A i \in 1..nh : lines[i] = <<output[1].header[i]>>
            /\ nh = Len(output[1].header)
            /\ Len(lines) = nh + 1 + 3 + n
            /\ lines[nh + 1] = <<>>
            /\ \A i \in (nh + 2)..Len(lines) : lines[i] # <<>>
            /\ SubSeq(lines, nh + 2, Len(lines)) = output[1].body
            /\ LogsOf(lines[nh + 2], "updating") = {1}
            /\ PartsOf(lines[nh + 3], "path") = {1}
            /\ LogsOf(lines[Len(lines)], "finished") = {1}
            /\ \A j \in 1..n :
                  LET stmt == lines[nh + 3 + j]
                      at == Nth(accepted, j)
                  IN  /\ IsAddLine(stmt)
                      /\ AttrValue(stmt, "address")
                            = LibraryText(SourceLines[at], Strict)
                      /\ \A i \in LogsOf(stmt, "added") : stmt[i].no = at

\* a script of two entries from a file whose second and third lines are
\* accepted: the IPv6 host comes before the IPv4 network, as in the file
C15_Witness ==
    /\ output # None
    /\ SourceLines = <<CommentLine, HostV6Line, NetV4Line>>
    /\ ~script.no_ipv4 /\ ~script.no_ipv6
    /\ LET lines == output[1].lines
       IN  /\ lines[Len(output[1].header) + 1] = <<>>
           /\ AttrValue(lines[Len(lines) - 2], "address") = "2001:db8::1/128"
           /\ AttrValue(lines[Len(lines) - 1], "address") = "10.0.0.0/24"

----------------------------------------------------------------------------
\* the absolute path the request denotes: the path of the configured file
\* URL, or the path option, a relative one taken from the working directory
DenotedPath ==
    IF HasScriptName THEN Scripts[args.script_name[1]].source.path
    ELSE Resolve(args.src_file[1], cwd)

\* C16: for a local source the generator checks and reads the file at the
\* absolute path that the path option or the configured file URL denotes,
\* whatever the working directory is: it resolves to that path, and it fails
\* only when no regular file is there.
C16_LocalPath ==
    IsLocal =>
        /\ source # None => Resolve(source[1], cwd) = DenotedPath
        /\ pc \in {"read", "returned"} => SourceLines = Lookup(fs, DenotedPath).lines
        /\ pc = "raised" => Lookup(fs, DenotedPath).kind # "file"

----------------------------------------------------------------------------
\* the lines among the first n of the source for which a generator that
\* parses with the given strictness emits an entry
AcceptedBy(strict, n) ==
    {i \in 1..n :
        LET l == strip(SourceLines[i])
        IN  IF IsSkipped(l) THEN FALSE
            ELSE IF ip_network(l, strict).ok
                 THEN ~IsFiltered(script, ip_network(l, strict).net)
                 ELSE FALSE}

\* C17: for the same file and options both generators accept the same lines
\* and emit the same statements with the same entry count: what the running
\* generator has emitted is what the other one emits for the lines read, a
\* CIDR line with host bits set included.
C17_SameGenerators ==
    InGenerator =>
        LET mine == AcceptedBy(Strict, no)
            theirs == AcceptedBy(~Strict, no)
        IN  /\ mine = theirs
            /\ script_entry_count = Cardinality(theirs)
            /\ NumAdds(script_body) = Cardinality(theirs)
            /\ \A j \in 1..Cardinality(theirs) :
                  LET at == Nth(theirs, j)
                  IN  script_body[2 + j] =
                         EntryStatement(script, at, line_count,
                             ip_network(strip(SourceLines[at]), ~Strict).net)

====
